---------------------------- MODULE Spec2Model ----------------------------
(***************************************************************************)
(* Model of the daily accrual engine of src/server.js: the tables          *)
(* daily_stats and activity_log, the prepared statements that read and     *)
(* write them, ensureToday, and the handlers GET /api/me and POST /api/log.*)
(*                                                                         *)
(* The server is one Node process and better-sqlite3 is synchronous, so a  *)
(* handler runs to completion before the next one starts: each handler is  *)
(* one action.  Every statement is its own autocommit transaction (the     *)
(* source opens no transaction), so a handler that throws part-way keeps   *)
(* the writes it has already made.  Dates are day numbers (UTC).           *)
(***************************************************************************)
EXTENDS Integers, Sequences, FiniteSets

(* ------------------------------ bounds -------------------------------- *)
\* Days are 0..MaxDay.
MaxDay == 2
\* A handler runs only when the log ends with at most MaxLog rows.
MaxLog == 3
\* At most MaxFaults statements throw a storage error in one behaviour.
MaxFaults == 1
\* At most MaxCalls requests arrive in a behaviour of SpecLoop or
\* SpecInterleaved.
MaxCalls == 3

\* The logged-in users (session userId); every statement is scoped by user_id.
Users == {1}
Days == 0..MaxDay

\* JSON values of the field points: an integer n, or null.
num(n) == [num |-> n]
null == [null |-> TRUE]

\* Request bodies a client sends to POST /api/log.  The type is free text,
\* so a client may itself send "Battery Bonus"; a body may lack a field, and
\* points may be any JSON value.
Bodies ==
    { [type |-> "read", points |-> num(65)],
      [type |-> "quiz", points |-> num(-30)],
      [type |-> "Battery Bonus", points |-> num(20)],
      [type |-> "", points |-> num(20)],
      [type |-> "read"],
      [type |-> "read", points |-> null] }

(* ----------------------------- constants ------------------------------ *)
BAT_GOAL == 65

\* What a .get() that finds no row returns.
undefined == [undefined |-> TRUE]

Max(a, b) == IF a >= b THEN a ELSE b

(* ------------------------- prepared statements ------------------------ *)
\* SELECT * FROM daily_stats WHERE user_id = ? AND date = ?
getDailyStats(db, userId, date) ==
    LET hit == {r \in db : r.user_id = userId /\ r.date = date}
    IN  IF hit = {} THEN undefined ELSE CHOOSE r \in hit : TRUE

getYesterday(db, userId, date) == getDailyStats(db, userId, date)

\* Faulty variant: on conflict the row is replaced and bonus_applied falls
\* back to its column default 0.
upsertDaily_replace(db, userId, date, energy, batEarned, bonusApplied) ==
    LET conflict == {r \in db : r.user_id = userId /\ r.date = date}
        row == [user_id |-> userId, date |-> date, energy |-> energy,
                battery_earned |-> batEarned,
                bonus_applied |-> IF conflict = {} THEN bonusApplied ELSE 0]
    IN  (db \ conflict) \cup {row}

\* INSERT ... ON CONFLICT(user_id, date) DO UPDATE SET energy, battery_earned,
\* bonus_applied = excluded.*
upsertDaily(db, userId, date, energy, batEarned, bonusApplied) ==
    LET conflict == {r \in db : r.user_id = userId /\ r.date = date}
        row == [user_id |-> userId, date |-> date, energy |-> energy,
                battery_earned |-> batEarned, bonus_applied |-> bonusApplied]
    IN  (db \ conflict) \cup {row}

RECURSIVE SumColumn(_, _)
SumColumn(rows, col) ==
    IF rows = {} THEN 0
    ELSE LET r == CHOOSE x \in rows : TRUE
         IN  r[col] + SumColumn(rows \ {r}, col)

\* SELECT COALESCE(SUM(battery_earned),0) AS earned, COALESCE(SUM(bonus_applied),0) AS used
countBatteries(db, userId) ==
    LET mine == {r \in db : r.user_id = userId}
    IN  [earned |-> SumColumn(mine, "battery_earned"),
         used   |-> SumColumn(mine, "bonus_applied")]

\* INSERT INTO activity_log (user_id, type, points, date); the row id is the
\* position in the log (AUTOINCREMENT, nothing is ever deleted).
addLog(log, userId, type, points, date) ==
    Append(log, [user_id |-> userId, type |-> type, points |-> points, date |-> date])

RECURSIVE getTotalEnergy_clamped(_, _)
\* Faulty variant: the running total is floored at zero like the daily energy.
getTotalEnergy_clamped(log, userId) ==
    IF log = <<>> THEN 0
    ELSE LET row == log[Len(log)]
             before == getTotalEnergy_clamped(SubSeq(log, 1, Len(log) - 1), userId)
         IN  IF row.user_id = userId THEN Max(0, before + row.points) ELSE before

RECURSIVE getTotalEnergy(_, _)
\* SELECT COALESCE(SUM(points), 0) FROM activity_log WHERE user_id = ?
getTotalEnergy(log, userId) ==
    IF log = <<>> THEN 0
    ELSE (IF Head(log).user_id = userId THEN Head(log).points ELSE 0)
         + getTotalEnergy(Tail(log), userId)

(* -------------------------------- clock ------------------------------- *)
\* new Date().toISOString().slice(0, 10): the UTC date of the instant read.
todayStr(clock) == clock

\* setDate(getDate() - 1) steps one day back on the LOCAL calendar, keeping the
\* local wall time, and toISOString() prints the UTC date of the result.  The
\* instant is 24 hours back, or 23 or 25 hours back when the server's zone
\* changed its offset in between (shift +1 / -1): read within an hour of UTC
\* midnight that is the same UTC date, or the UTC date two days back.
LocalDayShift == {-1, 0, 1}
yesterdayStr(clock, shift) == clock - 1 + shift

(* ---------------------------- ensureToday ----------------------------- *)
\* Faulty variant: the bonus is granted without looking at the balance.
bonusAppliedFor_noBalanceCheck(db, userId, yesterday) ==
    IF yesterday # undefined /\ yesterday.battery_earned = 1 THEN 1 ELSE 0

\* lines 120-128: the bonus decision; countBatteries is read only when
\* yesterday's row has a battery.
bonusAppliedFor(db, userId, yesterday) ==
    IF yesterday # undefined /\ yesterday.battery_earned = 1
    THEN LET batRow == countBatteries(db, userId)
             available == batRow.earned - batRow.used
         IN  IF available > 0 THEN 1 ELSE 0
    ELSE 0

\* Faulty variant: the bonus day starts empty.
startEnergyOf_zero(bonusApplied) == 0

\* line 130
startEnergyOf(bonusApplied) == IF bonusApplied = 1 THEN 20 ELSE 0

\* Faulty variant: the row is written on every call.
needsCreate_always(stats) == TRUE

\* line 118: if (!stats)
needsCreate(stats) == stats = undefined

\* Faulty variant: the synthetic entry is written for every new day.
bonusLog_always(log, userId, bonusApplied, today) ==
    addLog(log, userId, "Battery Bonus", 20, today)

\* lines 133-135: the synthetic entry, written only with the bonus
bonusLog(log, userId, bonusApplied, today) ==
    IF bonusApplied = 1 THEN addLog(log, userId, "Battery Bonus", 20, today) ELSE log

\* ensureToday(userId) with the two dates it reads from the clock; failAt names
\* the statement that throws a storage error ("none": no statement does).
\* Result: the tables, the row returned, and what the call did.
ensureToday(db, log, userId, today, yday, failAt) ==
    LET stats == getDailyStats(db, userId, today)
        yesterday == getYesterday(db, userId, yday)
        bonusApplied == bonusAppliedFor(db, userId, yesterday)
        db1 == upsertDaily(db, userId, today, startEnergyOf(bonusApplied), 0, bonusApplied)
        log1 == bonusLog(log, userId, bonusApplied, today)
        thrown == [db |-> db, log |-> log, stats |-> undefined, thrown |-> TRUE,
                   created |-> FALSE, bonusLogged |-> FALSE]
    IN  IF failAt = "getDailyStats116" THEN thrown
        ELSE IF ~needsCreate(stats) THEN [thrown EXCEPT !.stats = stats, !.thrown = FALSE]
        ELSE IF failAt = "getYesterday119" THEN thrown
        ELSE IF failAt = "countBatteries123" /\ yesterday # undefined
                /\ yesterday.battery_earned = 1 THEN thrown
        ELSE IF failAt = "upsertDaily131" THEN thrown
        ELSE IF failAt = "addLog134" /\ bonusApplied = 1
             THEN [thrown EXCEPT !.db = db1, !.created = TRUE]
        ELSE IF failAt = "getDailyStats137"
             THEN [thrown EXCEPT !.db = db1, !.log = log1, !.created = TRUE,
                                 !.bonusLogged = (log1 # log)]
        ELSE [db |-> db1, log |-> log1, stats |-> getDailyStats(db1, userId, today),
              thrown |-> FALSE, created |-> TRUE, bonusLogged |-> (log1 # log)]

(* ------------------------------ handlers ------------------------------ *)
\* Faulty variant: no floor at zero.
clampEnergy_noFloor(energy, points) == energy + points

\* line 213
clampEnergy(energy, points) == Max(0, energy + points)

\* Faulty variant: the flag follows the energy instead of sticking.
thresholdFlag_recomputed(newEnergy, batEarned) ==
    IF newEnergy >= BAT_GOAL THEN 1 ELSE 0

\* Faulty variant: the goal has to be exceeded, not reached.
thresholdFlag_strict(newEnergy, batEarned) ==
    IF newEnergy > BAT_GOAL /\ batEarned = 0 THEN 1 ELSE batEarned

\* lines 214-218
thresholdFlag(newEnergy, batEarned) ==
    IF newEnergy >= BAT_GOAL /\ batEarned = 0 THEN 1 ELSE batEarned

\* Faulty variant: newBattery repeats batEarned.
newBatteryFlag_anyEarned(stats, updatedStats) == updatedStats.battery_earned # 0

\* line 232
newBatteryFlag(stats, updatedStats) ==
    stats.battery_earned = 0 /\ updatedStats.battery_earned # 0

\* line 202: !type || points === undefined
invalidBody(body) ==
    \/ "type" \notin DOMAIN body
    \/ body.type = ""
    \/ "points" \notin DOMAIN body

\* activity_log.points is INTEGER NOT NULL (line 38): binding null throws.
notNull(value) == "null" \notin DOMAIN value

\* History of one handler run (not program state): the request, the date
\* ensureToday read at line 115, whether it created the row, and the row as
\* it created it.
history(op, userId, today, points, e, t115) ==
    [op |-> op, userId |-> userId, today |-> today, points |-> points,
     ensToday |-> t115, created |-> e.created,
     row |-> IF e.created THEN getDailyStats(e.db, userId, t115) ELSE undefined]

NoCall == [op |-> "none", userId |-> 0, today |-> 0, points |-> 0,
           ensToday |-> 0, created |-> FALSE, row |-> undefined]

\* GET /api/me, lines 185-198.  t115 and yday are the dates ensureToday reads.
meHandler(db, log, userId, t115, yday, failAt) ==
    LET e == ensureToday(db, log, userId, t115, yday, failAt)
        totalRow == getTotalEnergy(e.log, userId)
        batRow == countBatteries(e.db, userId)
        failed == e.thrown \/ failAt \in {"getTotalEnergy187", "countBatteries188"}
    IN  [db |-> e.db, log |-> e.log, bonusLogged |-> e.bonusLogged,
         last |-> history("me", userId, t115, 0, e, t115),
         resp |-> IF failed
                  THEN [status |-> 500]
                  ELSE [status |-> 200,
                        totalEnergy |-> totalRow,
                        todayEnergy |-> e.stats.energy,
                        batteries   |-> batRow.earned - batRow.used,
                        batEarned   |-> (e.stats.battery_earned # 0),
                        bonusActive |-> (e.stats.bonus_applied # 0)]]

\* POST /api/log, lines 200-234.  t205 is the handler's own today (line 205);
\* t115 and yday are the dates ensureToday reads after it.
logHandler(db, log, userId, body, t205, t115, yday, failAt) ==
    LET e == ensureToday(db, log, userId, t115, yday, failAt)
        points == IF notNull(body.points) THEN body.points.num ELSE 0
        log2 == addLog(e.log, userId, body.type, points, t205)
        stats == getDailyStats(e.db, userId, t205)
        newEnergy == clampEnergy(stats.energy, points)
        batEarned == thresholdFlag(newEnergy, stats.battery_earned)
        db2 == upsertDaily(e.db, userId, t205, newEnergy, batEarned, stats.bonus_applied)
        totalRow == getTotalEnergy(log2, userId)
        batRow == countBatteries(db2, userId)
        updatedStats == getDailyStats(db2, userId, t205)
        out(d, l) == [db |-> d, log |-> l, bonusLogged |-> e.bonusLogged,
                      last |-> history("log", userId, t205, points, e, t115),
                      resp |-> [status |-> 500]]
    IN  IF invalidBody(body)
        THEN [db |-> db, log |-> log, bonusLogged |-> FALSE,
              last |-> [NoCall EXCEPT !.op = "log", !.userId = userId],
              resp |-> [status |-> 400]]
        ELSE IF e.thrown \/ failAt = "addLog210" THEN out(e.db, e.log)
        \* NOT NULL constraint failed: activity_log.points, answered 500
        ELSE IF ~notNull(body.points) THEN out(e.db, e.log)
        ELSE IF failAt = "getDailyStats212" THEN out(e.db, log2)
        \* stats.energy of undefined: a TypeError, answered 500
        ELSE IF stats = undefined THEN out(e.db, log2)
        ELSE IF failAt = "upsertDaily220" THEN out(e.db, log2)
        ELSE IF failAt \in {"getTotalEnergy222", "countBatteries223", "getDailyStats224"}
             THEN out(db2, log2)
        ELSE [db |-> db2, log |-> log2, bonusLogged |-> e.bonusLogged,
              last |-> history("log", userId, t205, points, e, t115),
              resp |-> [status |-> 200,
                        id          |-> Len(log2),
                        totalEnergy |-> totalRow,
                        todayEnergy |-> updatedStats.energy,
                        batteries   |-> batRow.earned - batRow.used,
                        batEarned   |-> (updatedStats.battery_earned # 0),
                        newBattery  |-> newBatteryFlag(stats, updatedStats)]]

(* ------------------------------- state -------------------------------- *)
VARIABLES
    now,            \* the clock: today's UTC date
    daily_stats,    \* table daily_stats, a set of rows
    activity_log,   \* table activity_log, in id order
    resp,           \* the response of the handler that ran in the last step
    last,           \* history: that handler's request and ensureToday call
    bonusIds,       \* history: ids of the log rows written at line 134
    newBatteryIds,  \* history: ids returned by responses with newBattery = true
    faults,         \* history: the storage errors thrown so far
    req,            \* history: the body of the POST /api/log of the last step
    proc,           \* the requests in flight, statement by statement (SpecLoop)
    calls           \* history: the requests that have arrived in proc

vars == <<now, daily_stats, activity_log, resp, last, bonusIds, newBatteryIds, faults,
          req, proc, calls>>

NoResponse == [status |-> 0]

\* The value of req after a step that is not a POST /api/log.
NoBody == [none |-> TRUE]

\* The requests the server holds at once.
Procs == {1, 2}

\* A request slot with no request in it, and the locals of a handler.
Idle == [pc |-> "idle", op |-> "none", userId |-> 0, type |-> "", points |-> 0,
         today |-> 0, ens |-> 0, stats |-> undefined, yesterday |-> undefined,
         bonusApplied |-> 0, overlapped |-> FALSE]

Init ==
    /\ now = 0
    /\ daily_stats = {}
    /\ activity_log = <<>>
    /\ resp = NoResponse
    /\ last = NoCall
    /\ bonusIds = {}
    /\ newBatteryIds = {}
    /\ faults = 0
    /\ req = NoBody
    /\ proc = [p \in Procs |-> Idle]
    /\ calls = 0

\* The dates the clock can show at a later read in the same handler: midnight
\* may pass between two reads.
LaterReads(t) == {d \in Days : t <= d /\ d <= now + 1}

\* The statements that can throw a storage error.
FaultPoints ==
    {"getDailyStats116", "getYesterday119", "countBatteries123", "upsertDaily131",
     "addLog134", "getDailyStats137", "getTotalEnergy187", "countBatteries188",
     "addLog210", "getDailyStats212", "upsertDaily220", "getTotalEnergy222",
     "countBatteries223", "getDailyStats224"}

\* The statements of POST /api/log that follow line 210.
StatementsAfter210 ==
    {"getDailyStats212", "upsertDaily220", "getTotalEnergy222", "countBatteries223",
     "getDailyStats224"}

Commit(out, clock) ==
    /\ Len(out.log) <= MaxLog
    /\ now' = clock
    /\ daily_stats' = out.db
    /\ activity_log' = out.log
    /\ resp' = out.resp
    /\ last' = out.last
    /\ bonusIds' = IF out.bonusLogged
                   THEN bonusIds \cup {Len(activity_log) + 1} ELSE bonusIds
    /\ newBatteryIds' = IF out.resp.status = 200 /\ out.last.op = "log" /\ out.resp.newBattery
                        THEN newBatteryIds \cup {out.resp.id} ELSE newBatteryIds
    /\ UNCHANGED <<proc, calls>>

\* Days pass between requests.
Tick ==
    /\ now < MaxDay
    /\ now' = now + 1
    /\ resp' = NoResponse
    /\ last' = NoCall
    /\ req' = NoBody
    /\ UNCHANGED <<daily_stats, activity_log, bonusIds, newBatteryIds, faults, proc, calls>>

\* GET /api/me by a logged-in user, no statement throwing.
GetMe(userId) ==
    \E t115 \in LaterReads(now) : \E t119 \in LaterReads(t115) : \E shift \in LocalDayShift :
        /\ Commit(meHandler(daily_stats, activity_log, userId, todayStr(t115),
                            yesterdayStr(t119, shift), "none"), t119)
        /\ req' = NoBody
        /\ UNCHANGED faults

\* POST /api/log by a logged-in user, no statement throwing.
PostLog(userId, body) ==
    \E t205 \in LaterReads(now) : \E t115 \in LaterReads(t205) :
    \E t119 \in LaterReads(t115) : \E shift \in LocalDayShift :
        /\ Commit(logHandler(daily_stats, activity_log, userId, body, todayStr(t205),
                             todayStr(t115), yesterdayStr(t119, shift), "none"), t119)
        /\ req' = body
        /\ UNCHANGED faults

Next ==
    \/ Tick
    \/ \E u \in Users : GetMe(u)
    \/ \E u \in Users, b \in Bodies : PostLog(u, b)

Spec == Init /\ [][Next]_vars

\* The same handlers with the statement failAt throwing a storage error, in a
\* call during which the date does not change.
GetMeFault(userId, failAt) ==
    LET out == meHandler(daily_stats, activity_log, userId, todayStr(now),
                         yesterdayStr(now, 0), failAt)
    IN  /\ faults < MaxFaults
        /\ out.resp.status = 500
        /\ Commit(out, now)
        /\ faults' = faults + 1
        /\ req' = NoBody

PostLogFault(userId, body, failAt) ==
    LET out == logHandler(daily_stats, activity_log, userId, body, todayStr(now),
                          todayStr(now), yesterdayStr(now, 0), failAt)
    IN  /\ faults < MaxFaults
        /\ out.resp.status = 500
        /\ Commit(out, now)
        \* a null points value throws at line 210 before a later statement can
        /\ notNull(body.points) \/ failAt \notin StatementsAfter210
        /\ faults' = faults + 1
        /\ req' = body

NextFault ==
    \/ Next
    \/ \E u \in Users, f \in FaultPoints : GetMeFault(u, f)
    \/ \E u \in Users, b \in Bodies, f \in FaultPoints : PostLogFault(u, b, f)

SpecFault == Init /\ [][NextFault]_vars

(* ----------------------- statement by statement ----------------------- *)
\* The same handlers with every store statement its own step, for requests
\* that are in the server at the same time.  The responses are not recorded.
Accepted == {b \in Bodies : ~invalidBody(b) /\ notNull(b.points) /\ b.type # "Battery Bonus"}

Quiet == UNCHANGED <<resp, last, newBatteryIds, faults, req>>

Goto(p, r) == proc' = [proc EXCEPT ![p] = r] /\ UNCHANGED calls

\* The slot after its response is sent.  Of a POST /api/log that was in the
\* server together with another request, the day is kept as history.
Answered(r) ==
    IF r.op = "log" /\ r.overlapped
    THEN [Idle EXCEPT !.op = r.op, !.userId = r.userId, !.today = r.today,
                      !.overlapped = TRUE]
    ELSE Idle

\* Where the handler continues when ensureToday returns: GET /api/me only
\* reads (lines 187-188) and answers, POST /api/log goes on to line 210.
AfterEnsure(r) == IF r.op = "me" THEN Answered(r) ELSE [r EXCEPT !.pc = "s210"]

\* A request reaches the server while the other slot may hold one.
Arrive(p, op, userId, body) ==
    /\ proc[p].pc = "idle"
    /\ calls < MaxCalls
    /\ calls' = calls + 1
    /\ proc' = [q \in Procs |->
                  IF q = p
                  THEN [Idle EXCEPT !.pc = "queued", !.op = op, !.userId = userId,
                                    !.type = body.type, !.points = body.points.num,
                                    !.overlapped = \E o \in Procs \ {p} : proc[o].pc # "idle"]
                  ELSE IF proc[q].pc # "idle"
                       THEN [proc[q] EXCEPT !.overlapped = TRUE]
                       ELSE proc[q]]
    /\ UNCHANGED <<now, daily_stats, activity_log, bonusIds>>
    /\ Quiet

\* Faulty variant: a handler is started while another one is between two of
\* its statements.
runToCompletion_yielding(p) == TRUE

\* The handlers (lines 185-198, 200-234) are synchronous functions and every
\* statement is a synchronous better-sqlite3 call: the event loop starts a
\* handler only when no other handler is running.
runToCompletion(p) == \A q \in Procs \ {p} : proc[q].pc \in {"idle", "queued"}

\* The handler starts: lines 201-206 of POST /api/log read today's date.
Start(p) ==
    /\ proc[p].pc = "queued"
    /\ Goto(p, [proc[p] EXCEPT !.pc = "s115", !.today = todayStr(now)])
    /\ UNCHANGED <<now, daily_stats, activity_log, bonusIds>>
    /\ Quiet

Dispatch(p) == runToCompletion(p) /\ Start(p)

\* lines 115-118
S115(p) ==
    LET r == proc[p]
        today == todayStr(now)
        stats == getDailyStats(daily_stats, r.userId, today)
    IN  /\ r.pc = "s115"
        /\ Goto(p, IF needsCreate(stats)
                   THEN [r EXCEPT !.pc = "s119", !.ens = today]
                   ELSE AfterEnsure([r EXCEPT !.ens = today]))
        /\ UNCHANGED <<now, daily_stats, activity_log, bonusIds>>
        /\ Quiet

\* lines 119-121
S119(p) ==
    \E shift \in LocalDayShift :
        LET r == proc[p]
            yesterday == getYesterday(daily_stats, r.userId, yesterdayStr(now, shift))
        IN  /\ r.pc = "s119"
            /\ Goto(p, IF yesterday # undefined /\ yesterday.battery_earned = 1
                       THEN [r EXCEPT !.pc = "s123", !.yesterday = yesterday]
                       ELSE [r EXCEPT !.pc = "s131", !.bonusApplied = 0])
            /\ UNCHANGED <<now, daily_stats, activity_log, bonusIds>>
            /\ Quiet

\* lines 123-128
S123(p) ==
    LET r == proc[p]
    IN  /\ r.pc = "s123"
        /\ Goto(p, [r EXCEPT !.pc = "s131", !.yesterday = undefined,
                             !.bonusApplied = bonusAppliedFor(daily_stats, r.userId, r.yesterday)])
        /\ UNCHANGED <<now, daily_stats, activity_log, bonusIds>>
        /\ Quiet

\* lines 130-131
S131(p) ==
    LET r == proc[p]
    IN  /\ r.pc = "s131"
        /\ daily_stats' = upsertDaily(daily_stats, r.userId, r.ens,
                                      startEnergyOf(r.bonusApplied), 0, r.bonusApplied)
        /\ Goto(p, [r EXCEPT !.pc = IF r.bonusApplied = 1 THEN "s134" ELSE "s137"])
        /\ UNCHANGED <<now, activity_log, bonusIds>>
        /\ Quiet

\* lines 133-135
S134(p) ==
    LET r == proc[p]
    IN  /\ r.pc = "s134"
        /\ Len(activity_log) < MaxLog
        /\ activity_log' = bonusLog(activity_log, r.userId, r.bonusApplied, r.ens)
        /\ bonusIds' = bonusIds \cup {Len(activity_log) + 1}
        /\ Goto(p, [r EXCEPT !.pc = "s137", !.bonusApplied = 0])
        /\ UNCHANGED <<now, daily_stats>>
        /\ Quiet

\* lines 137-140: the row is read again and returned
S137(p) ==
    LET r == proc[p]
    IN  /\ r.pc = "s137"
        /\ Goto(p, AfterEnsure([r EXCEPT !.bonusApplied = 0]))
        /\ UNCHANGED <<now, daily_stats, activity_log, bonusIds>>
        /\ Quiet

\* line 210
S210(p) ==
    LET r == proc[p]
    IN  /\ r.pc = "s210"
        /\ Len(activity_log) < MaxLog
        /\ activity_log' = addLog(activity_log, r.userId, r.type, r.points, r.today)
        /\ Goto(p, [r EXCEPT !.pc = "s212"])
        /\ UNCHANGED <<now, daily_stats, bonusIds>>
        /\ Quiet

\* lines 212-213: stats.energy of undefined is a TypeError, answered 500
S212(p) ==
    LET r == proc[p]
        stats == getDailyStats(daily_stats, r.userId, r.today)
    IN  /\ r.pc = "s212"
        /\ Goto(p, IF stats = undefined THEN Idle
                   ELSE [r EXCEPT !.pc = "s220", !.stats = stats])
        /\ UNCHANGED <<now, daily_stats, activity_log, bonusIds>>
        /\ Quiet

\* lines 213-233: the write, then reads only and the answer
S220(p) ==
    LET r == proc[p]
        newEnergy == clampEnergy(r.stats.energy, r.points)
        batEarned == thresholdFlag(newEnergy, r.stats.battery_earned)
    IN  /\ r.pc = "s220"
        /\ daily_stats' = upsertDaily(daily_stats, r.userId, r.today, newEnergy, batEarned,
                                      r.stats.bonus_applied)
        /\ Goto(p, Answered(r))
        /\ UNCHANGED <<now, activity_log, bonusIds>>
        /\ Quiet

Statement(p) ==
    \/ S115(p) \/ S119(p) \/ S123(p) \/ S131(p) \/ S134(p) \/ S137(p)
    \/ S210(p) \/ S212(p) \/ S220(p)

Requests(p) ==
    \/ \E u \in Users : Arrive(p, "me", u, [type |-> "", points |-> num(0)])
    \/ \E u \in Users, b \in Accepted : Arrive(p, "log", u, b)

\* The server as it runs: one handler at a time.
NextLoop ==
    \/ Tick
    \/ \E p \in Procs : Requests(p)
    \/ \E p \in Procs : Dispatch(p)
    \/ \E p \in Procs : Statement(p)

SpecLoop == Init /\ [][NextLoop]_vars

\* Statements of two handlers interleaved one by one, as between two server
\* processes that share the database file.
NextInterleaved ==
    \/ Tick
    \/ \E p \in Procs : Requests(p)
    \/ \E p \in Procs : Start(p)
    \/ \E p \in Procs : Statement(p)

SpecInterleaved == Init /\ [][NextInterleaved]_vars

(* ----------------------------- properties ----------------------------- *)
RowOf(u, d) == getDailyStats(daily_stats, u, d)

Balance(db, u) == countBatteries(db, u).earned - countBatteries(db, u).used

\* The ids of the log rows attributed to (u, d).
EntriesOn(u, d) ==
    {i \in 1..Len(activity_log) :
        activity_log[i].user_id = u /\ activity_log[i].date = d}

RECURSIVE Replay(_, _, _, _)
\* e := max(0, e + points) over the rows of log attributed to (u, d), in order.
Replay(e, log, u, d) ==
    IF log = <<>> THEN e
    ELSE Replay(IF Head(log).user_id = u /\ Head(log).date = d
                THEN Max(0, e + Head(log).points) ELSE e,
                Tail(log), u, d)

RECURSIVE PlainSum(_, _, _)
\* The unclamped sum of the points of the rows of log attributed to (u, d).
PlainSum(log, u, d) ==
    IF log = <<>> THEN 0
    ELSE (IF Head(log).user_id = u /\ Head(log).date = d THEN Head(log).points ELSE 0)
         + PlainSum(Tail(log), u, d)

\* C1: every DailyRecord has energy >= 0 in every reachable state, whatever
\* sequence of GET /api/me and POST /api/log calls with signed integer points
\* led to it.
C1_EnergyNonNegative == \A r \in daily_stats : r.energy >= 0

\* A penalty hit the floor: the record stands at 0 while the plain sum of its
\* day's points is negative.
C1_Witness ==
    \E r \in daily_stats :
        r.energy = 0 /\ PlainSum(activity_log, r.user_id, r.date) < 0

\* C2: the stored energy of every DailyRecord equals the replay of
\* e := max(0, e + points) from 0 over the log rows of its (user, date) in
\* append order, the synthetic +20 row included.
C2_EnergyIsReplay ==
    \A r \in daily_stats : r.energy = Replay(0, activity_log, r.user_id, r.date)

\* A bonus day with an activity after the bonus row, where the clamp made the
\* replay differ from the plain sum.
C2_Witness ==
    \E r \in daily_stats :
        /\ r.bonus_applied = 1
        /\ Cardinality(EntriesOn(r.user_id, r.date)) >= 2
        /\ r.energy # PlainSum(activity_log, r.user_id, r.date)

\* C3: once a DailyRecord has batteryEarned = true it has it in every later
\* state: no step takes the flag of an existing record from 1 to anything else.
C3_BatteryMonotonic ==
    [][\A r \in daily_stats :
          r.battery_earned = 1 =>
            LET r2 == getDailyStats(daily_stats', r.user_id, r.date)
            IN  r2 # undefined /\ r2.battery_earned = 1]_vars

\* A record keeps its battery although penalties took its energy below the goal.
C3_Witness ==
    \E r \in daily_stats : r.battery_earned = 1 /\ r.energy < BAT_GOAL

\* C4: when the record of (user, today) exists, ensureToday creates nothing and
\* writes no bonus row; GET /api/me then leaves both tables unchanged and
\* answers with that record's fields.
C4_EnsureTodayIdempotent ==
    [][(last'.op # "none" /\ RowOf(last'.userId, last'.ensToday) # undefined
        /\ resp'.status = 200) =>
         LET r == RowOf(last'.userId, last'.ensToday)
         IN  /\ ~last'.created
             /\ bonusIds' = bonusIds
             /\ last'.op = "me" =>
                  /\ daily_stats' = daily_stats
                  /\ activity_log' = activity_log
                  /\ resp'.todayEnergy = r.energy
                  /\ resp'.batEarned = (r.battery_earned # 0)
                  /\ resp'.bonusActive = (r.bonus_applied # 0)]_vars

\* GET /api/me answered from an existing bonus record with activity on it.
C4_Witness ==
    /\ last.op = "me" /\ ~last.created /\ resp.status = 200
    /\ resp.bonusActive /\ resp.todayEnergy > 20

\* C5: for every user the Battery Balance, earned minus used over all the
\* user's records, is >= 0 in every reachable state.
C5_BalanceNonNegative == \A u \in Users : Balance(daily_stats, u) >= 0

\* Every earned battery is spent, and a later day opened without a bonus.
C5_Witness ==
    \E u \in Users :
        /\ countBatteries(daily_stats, u).used >= 1
        /\ Balance(daily_stats, u) = 0
        /\ \E r \in daily_stats : \E q \in daily_stats :
              /\ r.user_id = u /\ q.user_id = u
              /\ q.bonus_applied = 1 /\ r.date > q.date /\ r.bonus_applied = 0

BonusEntriesOn(u, d) == bonusIds \cap EntriesOn(u, d)

\* C7: for every (user, date) the Daily Initializer has written exactly one
\* synthetic row (type "Battery Bonus", points 20, dated that date) when the
\* record has bonusApplied = true, and none when it has bonusApplied = false or
\* does not exist.
C7_OneBonusEntry ==
    /\ \A i \in bonusIds :
          activity_log[i].type = "Battery Bonus" /\ activity_log[i].points = 20
    /\ \A u \in Users, d \in Days :
          Cardinality(BonusEntriesOn(u, d)) =
            IF RowOf(u, d) # undefined /\ RowOf(u, d).bonus_applied = 1 THEN 1 ELSE 0

\* A bonus day on which the client also posted an activity of type
\* "Battery Bonus" worth 20: two such rows, one of them the initializer's.
C7_Witness ==
    \E r \in daily_stats :
        /\ r.bonus_applied = 1
        /\ Cardinality(BonusEntriesOn(r.user_id, r.date)) = 1
        /\ \E i \in EntriesOn(r.user_id, r.date) \ bonusIds :
              activity_log[i].type = "Battery Bonus" /\ activity_log[i].points = 20

\* C8: a POST /api/log answers newBattery = true exactly when it took the
\* day's batteryEarned from false to true; per (user, date) at most one answer
\* has newBattery = true and the flag is 0 or 1.
C8_NewBatteryOnce ==
    [][/\ (last'.op = "log" /\ resp'.status = 200) =>
            LET u == last'.userId
                d == last'.today
                hadBattery == RowOf(u, d) # undefined /\ RowOf(u, d).battery_earned # 0
                hasBattery == getDailyStats(daily_stats', u, d).battery_earned # 0
            IN  resp'.newBattery <=> (~hadBattery /\ hasBattery)
       /\ \A r \in daily_stats' :
            /\ r.battery_earned \in {0, 1}
            /\ Cardinality({i \in newBatteryIds' : activity_log'[i].user_id = r.user_id
                                                  /\ activity_log'[i].date = r.date}) <= 1
      ]_vars

\* A second activity on a day whose battery an earlier call had minted.
C8_Witness ==
    /\ last.op = "log" /\ resp.status = 200
    /\ resp.batEarned /\ ~resp.newBattery
    /\ \E i \in newBatteryIds :
          activity_log[i].user_id = last.userId /\ activity_log[i].date = last.today

\* C9: a POST /api/log on a day whose record had batteryEarned = false leaves
\* it true exactly when max(0, previous energy + points) >= 65; a record has
\* batteryEarned = true only if an activity of its day produced energy >= 65,
\* and a record with energy >= 65 has batteryEarned = true.
C9_BatteryAtGoal ==
    [][/\ (last'.op = "log" /\ resp'.status = 200) =>
            LET u == last'.userId
                d == last'.today
                stats == IF RowOf(u, d) # undefined THEN RowOf(u, d) ELSE last'.row
                after == getDailyStats(daily_stats', u, d)
            IN  stats.battery_earned = 0 =>
                  (after.battery_earned = 1 <=>
                     Max(0, stats.energy + last'.points) >= BAT_GOAL)
       /\ \A r \in daily_stats' :
            /\ r.battery_earned = 1 =>
                 \E i \in {j \in 1..Len(activity_log') :
                              /\ activity_log'[j].user_id = r.user_id
                              /\ activity_log'[j].date = r.date} \ bonusIds' :
                    Replay(0, SubSeq(activity_log', 1, i), r.user_id, r.date) >= BAT_GOAL
            /\ r.energy >= BAT_GOAL => r.battery_earned = 1
      ]_vars

\* An activity took the day exactly to the goal and minted the battery.
C9_Witness ==
    /\ last.op = "log" /\ resp.status = 200
    /\ resp.newBattery /\ resp.todayEnergy = BAT_GOAL

\* Log and records agree: every record's energy is the replay of its rows,
\* every row has its record, and the bonus rows match the bonus flags.
StoreConsistent(db, log, bonus) ==
    /\ \A r \in db : r.energy = Replay(0, log, r.user_id, r.date)
    /\ \A i \in 1..Len(log) : getDailyStats(db, log[i].user_id, log[i].date) # undefined
    /\ \A r \in db :
          (r.bonus_applied = 1) <=>
            (\E i \in bonus : log[i].user_id = r.user_id /\ log[i].date = r.date)

\* C10: a call that fails on a storage error leaves the store with both of
\* its effects or neither: no log row without the matching energy update, no
\* energy update without its log row, no bonus record without its bonus row.
C10_AllOrNothing ==
    [][faults' > faults => StoreConsistent(daily_stats', activity_log', bonusIds')]_vars

\* What the specification requires of a body: a non-empty type and integer
\* points.
unacceptable(body) ==
    \/ "type" \notin DOMAIN body
    \/ body.type = ""
    \/ "points" \notin DOMAIN body
    \/ "num" \notin DOMAIN body.points

\* C11: a POST /api/log whose type is missing or empty, or whose points is
\* missing or not an integer, is answered 400 and changes neither table: no
\* record is created, not even today's by ensureToday, and no row is logged.
C11_InvalidRejected ==
    [][(req' # NoBody /\ unacceptable(req')) =>
         /\ resp'.status = 400
         /\ daily_stats' = daily_stats
         /\ activity_log' = activity_log]_vars

\* C12: when the statements of two first-touch requests for the same new
\* (user, date) are interleaved one by one, the key has one record and the
\* log has at most one Battery Bonus row of line 134 dated that day.
C12_OneRecordOneBonus ==
    \A u \in Users, d \in Days :
        /\ Cardinality({r \in daily_stats : r.user_id = u /\ r.date = d}) <= 1
        /\ Cardinality(BonusEntriesOn(u, d)) <= 1

\* No handler is between two of its statements.
Settled == \A p \in Procs : proc[p].pc \in {"idle", "queued"}

\* The orders in which the log rows S can be taken one after another.
Orders(S) ==
    {o \in [1..Cardinality(S) -> S] : \A i, j \in DOMAIN o : o[i] = o[j] => i = j}

RECURSIVE Serial(_, _, _)
\* Energy and battery flag after the rows order[k..] are applied one at a
\* time to a record that stands at acc.
Serial(acc, order, k) ==
    IF k > Len(order) THEN acc
    ELSE LET e == Max(0, acc.energy + activity_log[order[k]].points)
         IN  Serial([energy |-> e,
                     battery_earned |-> IF e >= BAT_GOAL THEN 1 ELSE acc.battery_earned],
                    order, k + 1)

\* C13: for POST /api/log calls that are in the server at the same time, on
\* the same user and day, the record's energy and batteryEarned are those of
\* the calls applied one after another in some order: no delta is lost.
C13_SerialOutcome ==
    Settled =>
      \A r \in daily_stats :
        \E o \in Orders(EntriesOn(r.user_id, r.date)) :
            LET end == Serial([energy |-> 0, battery_earned |-> 0], o, 1)
            IN  r.energy = end.energy /\ r.battery_earned = end.battery_earned

\* Two POST /api/log for the same user and day were in the server together
\* and both are answered.
C13_Witness ==
    /\ \A p \in Procs : proc[p].pc = "idle" /\ proc[p].op = "log" /\ proc[p].overlapped
    /\ \E u \in Users, d \in Days :
          /\ \A p \in Procs : proc[p].userId = u /\ proc[p].today = d
          /\ Cardinality(EntriesOn(u, d) \ bonusIds) >= 2
          /\ RowOf(u, d) # undefined

RECURSIVE LedgerSum(_, _, _)
\* The plain sum of the points of the first n rows of log that belong to u.
LedgerSum(log, u, n) ==
    IF n = 0 THEN 0
    ELSE (IF log[n].user_id = u THEN log[n].points ELSE 0) + LedgerSum(log, u, n - 1)

\* C14: the lifetime total that POST /api/log and GET /api/me answer is the
\* plain sum of the points of all the user's log rows; a successful POST with
\* points p appends a row storing p and raises the total by p, plus 20 only
\* when the same call wrote the bonus row, also when the daily energy was
\* clamped.
C14_LifetimeTotal ==
    [][(last'.op # "none" /\ resp'.status = 200) =>
         LET u == last'.userId
             n == Len(activity_log')
             before == LedgerSum(activity_log, u, Len(activity_log))
         IN  /\ resp'.totalEnergy = LedgerSum(activity_log', u, n)
             /\ last'.op = "log" =>
                  /\ activity_log'[n] = [user_id |-> u, type |-> req'.type,
                                         points |-> req'.points.num, date |-> last'.today]
                  /\ resp'.id = n
                  /\ resp'.totalEnergy =
                        before + req'.points.num + (IF bonusIds' # bonusIds THEN 20 ELSE 0)
      ]_vars

\* A penalty on a day standing at 0 is answered with a negative lifetime total.
C14_Witness ==
    /\ last.op = "log" /\ resp.status = 200
    /\ req.points.num < 0 /\ resp.todayEnergy = 0 /\ resp.totalEnergy < 0

\* C15: bonusApplied is set when the record is created and no later call
\* changes it: every step leaves every existing record in place with the
\* bonus_applied it had.
C15_BonusFixed ==
    [][\A r \in daily_stats :
          LET r2 == getDailyStats(daily_stats', r.user_id, r.date)
          IN  r2 # undefined /\ r2.bonus_applied = r.bonus_applied]_vars

\* A POST /api/log rewrote a record that had been created with the bonus.
C15_Witness ==
    /\ last.op = "log" /\ resp.status = 200 /\ ~last.created
    /\ RowOf(last.userId, last.today).bonus_applied = 1
    /\ RowOf(last.userId, last.today).energy # 20

\* C16: no GET /api/me and no POST /api/log with an acceptable body finds
\* today's record absent when it reads it (lines 186, 212), at whatever
\* instant it runs: the record of the handler's own date is there when the
\* handler ends.
C16_TodayPresent ==
    /\ last.op = "me" => RowOf(last.userId, last.today) # undefined
    /\ (last.op = "log" /\ ~unacceptable(req)) => RowOf(last.userId, last.today) # undefined

\* What a step did to the tables lies within the dates ds of user u: records
\* of other keys are as they were, no record is gone, the old log rows are as
\* they were and the new ones belong to u and a date of ds.
WritesWithin(u, ds) ==
    /\ \A r \in daily_stats :
          /\ getDailyStats(daily_stats', r.user_id, r.date) # undefined
          /\ (r.user_id # u \/ r.date \notin ds) => r \in daily_stats'
    /\ \A r \in daily_stats' \ daily_stats : r.user_id = u /\ r.date \in ds
    /\ Len(activity_log') >= Len(activity_log)
    /\ SubSeq(activity_log', 1, Len(activity_log)) = activity_log
    /\ \A i \in (Len(activity_log) + 1)..Len(activity_log') :
          activity_log'[i].user_id = u /\ activity_log'[i].date \in ds

\* C17: a call for user u on date d writes only the record of (u, d) and
\* appends only rows of (u, d); every other record and every row written
\* before is unchanged, and nothing is deleted.
C17_WritesOnlyOwnDay ==
    [][WritesWithin(last'.userId, {last'.today})]_vars

\* C18: every record with bonusApplied = true has, for the same user, a
\* record of the calendar date just before it with batteryEarned = true.
C18_BonusAfterBatteryDay ==
    \A r \in daily_stats :
        r.bonus_applied = 1 =>
          /\ RowOf(r.user_id, r.date - 1) # undefined
          /\ RowOf(r.user_id, r.date - 1).battery_earned = 1

\* C19: every record's energy is at least the plain sum of the points of its
\* day's log rows, and so a user's lifetime total is at most the sum of the
\* energy of the user's records.
C19_EnergyCoversPoints ==
    /\ \A r \in daily_stats : r.energy >= PlainSum(activity_log, r.user_id, r.date)
    /\ \A u \in Users :
          LedgerSum(activity_log, u, Len(activity_log))
            <= SumColumn({r \in daily_stats : r.user_id = u}, "energy")

=============================================================================
